---- MODULE Spec2Model ----
(***************************************************************************)
(* The packet codec of src/src/stdio_protocol.rs: Value, Packet,           *)
(* Packet::encode, Packet::decode and the integer helpers write_u32,       *)
(* read_u32 and read_length_prefixed.                                      *)
(*                                                                         *)
(* Representation.  A byte is an integer in 0..255 and a buffer (Vec<u8>,  *)
(* &[u8], String) is a sequence of bytes.  A u32 is the record             *)
(* [hi, lo] of its two 16-bit halves (value = hi * 65536 + lo), so that    *)
(* the whole range 0..2^32-1 and the wrap-around of `<<` are exact.  An    *)
(* i32 is an integer in -2^31..2^31-1.  A BTreeMap<String, Value> is the   *)
(* sequence of its <<key, value>> entries in iteration order.              *)
(***************************************************************************)
EXTENDS Integers, Sequences, FiniteSets, TLC

VARIABLES
  pc,      \* position of the exchange: "start", "encoded", "body", "decoded", "reencoded"
  p,       \* the Packet the sender built
  frame,   \* Packet::encode(p): the framed buffer
  src,     \* how `body` was obtained from the stream
  body,    \* the buffer handed to Packet::decode
  out,     \* the outcome of Packet::decode(body)
  frame2   \* Packet::encode of the decoded Packet

vars == <<pc, p, frame, src, body, out, frame2>>

(***************************************************************************)
(* u32 / i32 arithmetic                                                    *)
(***************************************************************************)
Half == 65536

U32(hi, lo) == [hi |-> hi, lo |-> lo]

\* `x as u32` for a usize x (a length; wraps modulo 2^32)
usize_as_u32(x) == U32((x \div Half) % Half, x % Half)

\* `value as u32` for an i32: the two's-complement bits
i32_as_u32(n) == U32((n \div Half) % Half, n % Half)

\* a sign-dropping conversion: keeps the low 31 bits
u32_as_i32_nosign(u) == (u.hi % 32768) * Half + u.lo

\* `value as i32` for a u32
u32_as_i32(u) == IF u.hi >= 32768 THEN (u.hi - Half) * Half + u.lo
                 ELSE u.hi * Half + u.lo

\* a rotating shift: the top bit re-enters at the bottom
shl1_rotate(u) == U32((u.hi * 2 + u.lo \div 32768) % Half,
                      ((u.lo * 2) % Half) + (u.hi \div 32768))

\* `x << 1` on u32: the top bit is dropped
shl1(u) == U32((u.hi * 2 + u.lo \div 32768) % Half, (u.lo * 2) % Half)

\* `x >> 1` on u32
shr1(u) == U32(u.hi \div 2, (u.lo \div 2) + (u.hi % 2) * 32768)

\* `x | 1`
or1(u) == U32(u.hi, u.lo + (IF u.lo % 2 = 0 THEN 1 ELSE 0))

\* `x & 1`
and1(u) == u.lo % 2

\* `len as usize > n` for a u32 len and a buffer length n < 2^16
u32_exceeds(u, n) == u.hi > 0 \/ u.lo > n

\* byteorder's LE::write_u32 / LE::read_u32 on a 4-byte cell
LE_bytes_big_endian(u) == <<u.hi \div 256, u.hi % 256, u.lo \div 256, u.lo % 256>>

LE_bytes(u) == <<u.lo % 256, u.lo \div 256, u.hi % 256, u.hi \div 256>>

LE_value(b) == U32(b[3] + 256 * b[4], b[1] + 256 * b[2])

\* fn write_u32(bytes, value): appends the little-endian cell
write_u32(bytes, value) == bytes \o LE_bytes(value)

(***************************************************************************)
(* Value and Packet                                                        *)
(***************************************************************************)
Null == [tag |-> "Null"]
Boolean(b) == [tag |-> "Boolean", b |-> b]
Number(n) == [tag |-> "Number", n |-> n]
String(s) == [tag |-> "String", s |-> s]
Uint8Array(b) == [tag |-> "Uint8Array", bytes |-> b]
Array(items) == [tag |-> "Array", items |-> items]
Map(entries) == [tag |-> "Map", entries |-> entries]

Packet(id, is_request, value) == [id |-> id, is_request |-> is_request, value |-> value]

\* String's Ord: lexicographic order of the bytes
RECURSIVE StrLess(_, _)
StrLess(a, b) ==
  IF b = <<>> THEN FALSE
  ELSE IF a = <<>> THEN TRUE
  ELSE IF a[1] # b[1] THEN a[1] < b[1]
  ELSE StrLess(Tail(a), Tail(b))

\* an insert that keeps the first value of a repeated key
BTreeInsert_keep_first(m, k, v) ==
  IF \E i \in 1..Len(m) : m[i][1] = k THEN m
  ELSE LET n == Cardinality({i \in 1..Len(m) : StrLess(m[i][1], k)})
       IN SubSeq(m, 1, n) \o << <<k, v>> >> \o SubSeq(m, n + 1, Len(m))

\* an insert that keeps insertion order (a Vec of pairs, an insertion-ordered map)
BTreeInsert_unordered(m, k, v) ==
  IF \E i \in 1..Len(m) : m[i][1] = k
  THEN [i \in 1..Len(m) |-> IF m[i][1] = k THEN <<k, v>> ELSE m[i]]
  ELSE Append(m, <<k, v>>)

\* BTreeMap::insert: replaces the value of an existing key, else places the
\* entry at its position in key order
BTreeInsert(m, k, v) ==
  IF \E i \in 1..Len(m) : m[i][1] = k
  THEN [i \in 1..Len(m) |-> IF m[i][1] = k THEN <<k, v>> ELSE m[i]]
  ELSE LET n == Cardinality({i \in 1..Len(m) : StrLess(m[i][1], k)})
       IN SubSeq(m, 1, n) \o << <<k, v>> >> \o SubSeq(m, n + 1, Len(m))

\* BTreeMap::from_iter over a sequence of (key, value) pairs
RECURSIVE from_iter_acc(_, _)
from_iter_acc(pairs, m) ==
  IF pairs = <<>> THEN m
  ELSE from_iter_acc(Tail(pairs), BTreeInsert(m, pairs[1][1], pairs[1][2]))

from_iter(pairs) == from_iter_acc(pairs, <<>>)

(***************************************************************************)
(* Packet::encode                                                          *)
(***************************************************************************)
\* the id/direction cell of lines 69-73, with the bit inverted
pack_inverted(id, is_request) == IF is_request THEN or1(shl1(id)) ELSE shl1(id)

\* the id/direction cell: id << 1 for a request, (id << 1) | 1 otherwise
pack(id, is_request) == IF is_request THEN shl1(id) ELSE or1(shl1(id))

RECURSIVE encode_visit(_, _), encode_items(_, _), encode_entries(_, _)

\* fn visit(value, bytes) of encode: returns bytes with the encoding appended
encode_visit(value, bytes) ==
  CASE value.tag = "Null" -> Append(bytes, 0)
    [] value.tag = "Boolean" -> Append(Append(bytes, 1), IF value.b THEN 1 ELSE 0)
    [] value.tag = "Number" -> write_u32(Append(bytes, 2), i32_as_u32(value.n))
    [] value.tag = "String" ->
         write_u32(Append(bytes, 3), usize_as_u32(Len(value.s))) \o value.s
    [] value.tag = "Uint8Array" ->
         write_u32(Append(bytes, 4), usize_as_u32(Len(value.bytes))) \o value.bytes
    [] value.tag = "Array" ->
         encode_items(value.items,
                      write_u32(Append(bytes, 5), usize_as_u32(Len(value.items))))
    [] value.tag = "Map" ->
         encode_entries(value.entries,
                        write_u32(Append(bytes, 6), usize_as_u32(Len(value.entries))))

\* `for item in value { visit(item, bytes) }`
encode_items(items, bytes) ==
  IF items = <<>> THEN bytes
  ELSE encode_items(Tail(items), encode_visit(items[1], bytes))

\* `for (key, value) in map { write_u32; extend(key); visit(value, bytes) }`
encode_entries(entries, bytes) ==
  IF entries = <<>> THEN bytes
  ELSE encode_entries(Tail(entries),
         encode_visit(entries[1][2],
                      write_u32(bytes, usize_as_u32(Len(entries[1][1]))) \o entries[1][1]))

\* an encode whose length prefix counts itself
encode_len_counts_prefix(self) ==
  LET body0 == encode_visit(self.value, write_u32(<<>>, pack(self.id, self.is_request)))
  IN write_u32(<<>>, usize_as_u32(Len(body0) + 4)) \o body0

\* pub fn encode(self) -> Vec<u8>
encode(self) ==
  LET body0 == encode_visit(self.value, write_u32(<<>>, pack(self.id, self.is_request)))
  IN write_u32(<<>>, usize_as_u32(Len(body0))) \o body0

(***************************************************************************)
(* Packet::decode                                                          *)
(*                                                                         *)
(* decode returns Self: it has no error value.  Every failure is a panic   *)
(* (an index or slice out of range, an unwrap of an Err, panic!("Invalid   *)
(* packet")) or an abort of the process (a failed allocation).  A step's   *)
(* result is [ok, why, value, next]: with ok, the value read and the rest  *)
(* of the buffer; without, the failure that ended the call.                *)
(***************************************************************************)
Ok(value, next) == [ok |-> TRUE, why |-> "", value |-> value, next |-> next]
Failed(why) == [ok |-> FALSE, why |-> why, value |-> Null, next |-> <<>>]

\* the tail bytes[n..] of a slice (n <= len)
From(bytes, n) == SubSeq(bytes, n + 1, Len(bytes))

\* fn read_u32(bytes): LE::read_u32 panics on fewer than 4 bytes
read_u32(bytes) ==
  IF Len(bytes) < 4 THEN Failed("index")
  ELSE Ok(LE_value(bytes), From(bytes, 4))

\* a read_length_prefixed that does not step over the payload
read_length_prefixed_no_advance(bytes) ==
  LET r == read_u32(bytes) IN
  IF ~r.ok THEN r
  ELSE IF u32_exceeds(r.value, Len(r.next)) THEN Failed("index")
  ELSE Ok(SubSeq(r.next, 1, r.value.lo), r.next)

\* fn read_length_prefixed(bytes): &next[..len] panics when len > next.len()
read_length_prefixed(bytes) ==
  LET r == read_u32(bytes) IN
  IF ~r.ok THEN r
  ELSE IF u32_exceeds(r.value, Len(r.next)) THEN Failed("index")
  ELSE Ok(SubSeq(r.next, 1, r.value.lo), From(r.next, r.value.lo))

\* a continuation byte 0x80..0xBF
Cont(b) == b >= 128 /\ b <= 191

\* String::from_utf8(..) is Ok: the bytes are well-formed UTF-8 (no overlong
\* forms, no surrogates, nothing above U+10FFFF)
RECURSIVE from_utf8_ok(_)
from_utf8_ok(s) ==
  IF s = <<>> THEN TRUE
  ELSE LET n == Len(s)
           b == s[1] IN
    IF b <= 127 THEN from_utf8_ok(From(s, 1))
    ELSE IF b >= 194 /\ b <= 223
      THEN n >= 2 /\ Cont(s[2]) /\ from_utf8_ok(From(s, 2))
    ELSE IF b >= 224 /\ b <= 239
      THEN /\ n >= 3
           /\ Cont(s[2]) /\ Cont(s[3])
           /\ (b = 224 => s[2] >= 160)
           /\ (b = 237 => s[2] <= 159)
           /\ from_utf8_ok(From(s, 3))
    ELSE IF b >= 240 /\ b <= 244
      THEN /\ n >= 4
           /\ Cont(s[2]) /\ Cont(s[3]) /\ Cont(s[4])
           /\ (b = 240 => s[2] >= 144)
           /\ (b = 244 => s[2] <= 143)
           /\ from_utf8_ok(From(s, 4))
    ELSE FALSE

RECURSIVE decode_visit(_, _), decode_array(_, _, _, _, _), decode_map(_, _, _, _, _)

\* fn visit(bytes) of decode; mem: whether an oversized reservation is granted
decode_visit(bytes, mem) ==
  IF bytes = <<>> THEN Failed("index")                      \* bytes[0]
  ELSE LET kind == bytes[1]
           rest == From(bytes, 1) IN
    CASE kind = 0 -> Ok(Null, rest)
      [] kind = 1 ->
           IF rest = <<>> THEN Failed("index")
           ELSE Ok(Boolean(rest[1] # 0), From(rest, 1))
      [] kind = 2 ->
           LET r == read_u32(rest) IN
           IF ~r.ok THEN r ELSE Ok(Number(u32_as_i32(r.value)), r.next)
      [] kind = 3 ->
           LET r == read_length_prefixed(rest) IN
           IF ~r.ok THEN r
           ELSE IF ~from_utf8_ok(r.value) THEN Failed("utf8")   \* unwrap()
           ELSE Ok(String(r.value), r.next)
      [] kind = 4 ->
           LET r == read_length_prefixed(rest) IN
           IF ~r.ok THEN r ELSE Ok(Uint8Array(r.value), r.next)
      [] kind = 5 ->
           LET r == read_u32(rest) IN
           IF ~r.ok THEN r
           \* Vec::with_capacity(len): a reservation of more elements than the
           \* buffer has bytes left succeeds or aborts, as the allocator decides
           ELSE IF u32_exceeds(r.value, Len(r.next)) /\ ~mem THEN Failed("alloc")
           ELSE decode_array(r.value, 0, r.next, <<>>, mem)
      [] kind = 6 ->
           LET r == read_u32(rest) IN
           IF ~r.ok THEN r
           ELSE decode_map(r.value, 0, r.next, <<>>, mem)
      [] OTHER -> Failed("invalid_packet")                  \* panic!("Invalid packet")

\* `for _ in 0..len { let (v, n) = visit(next); next = n; value.push(v) }`,
\* i iterations done
decode_array(len, i, next, value, mem) ==
  IF usize_as_u32(i) = len THEN Ok(Array(value), next)
  ELSE LET r == decode_visit(next, mem) IN
       IF ~r.ok THEN r
       ELSE decode_array(len, i + 1, r.next, Append(value, r.value), mem)

\* `for _ in 0..len { read key; from_utf8(key).unwrap(); visit; value.insert(k, v) }`
decode_map(len, i, next, value, mem) ==
  IF usize_as_u32(i) = len THEN Ok(Map(value), next)
  ELSE LET k == read_length_prefixed(next) IN
       IF ~k.ok THEN k
       ELSE IF ~from_utf8_ok(k.value) THEN Failed("utf8")
       ELSE LET r == decode_visit(k.next, mem) IN
            IF ~r.ok THEN r
            ELSE decode_map(len, i + 1, r.next, BTreeInsert(value, k.value, r.value), mem)

\* the id/direction cell read back without the shift
unpack_no_shift(cell) == [id |-> cell, is_request |-> and1(cell) = 0]

\* lines 133-134: is_request = (id & 1) == 0; id >>= 1
unpack(cell) == [id |-> shr1(cell), is_request |-> and1(cell) = 0]

NoPacket == Packet(U32(0, 0), FALSE, Null)
Returned(packet) == [kind |-> "packet", why |-> "", packet |-> packet]
Panicked(why) ==
  [kind |-> IF why = "alloc" THEN "abort" ELSE "panic", why |-> why, packet |-> NoPacket]

\* a decode that does not look at what is left of the buffer
decode_ignores_rest(bytes, mem) ==
  LET c == read_u32(bytes) IN
  IF ~c.ok THEN Panicked(c.why)
  ELSE LET v == decode_visit(c.next, mem) IN
    IF ~v.ok THEN Panicked(v.why)
    ELSE LET u == unpack(c.value) IN Returned(Packet(u.id, u.is_request, v.value))

\* pub fn decode(bytes: Vec<u8>) -> Self
decode(bytes, mem) ==
  LET c == read_u32(bytes) IN
  IF ~c.ok THEN Panicked(c.why)
  ELSE LET v == decode_visit(c.next, mem) IN
    IF ~v.ok THEN Panicked(v.why)
    ELSE IF v.next # <<>> THEN Panicked("invalid_packet")
    ELSE LET u == unpack(c.value) IN Returned(Packet(u.id, u.is_request, v.value))

(***************************************************************************)
(* The reference wire grammar of the specification (section 6), used to    *)
(* state the properties: a serialiser and a parser written from the        *)
(* grammar, sharing nothing with encode and decode above.                  *)
(*   Value := 0 | 1 u8 | 2 u32 | 3 u32 bytes | 4 u32 bytes                 *)
(*          | 5 u32 Value{count} | 6 u32 (u32 bytes Value){count}          *)
(***************************************************************************)
\* u32_le of an integer in -2^31..2^31-1 (a negative one by its two's complement)
RefU32(n) == <<n % 256, (n \div 256) % 256, (n \div 65536) % 256, (n \div 16777216) % 256>>

\* u32_le((id << 1) | bit) for a u32 id given by its halves
RefCell(id, is_request) ==
  <<(id.lo % 128) * 2 + (IF is_request THEN 0 ELSE 1),
    (id.lo \div 128) % 256,
    (id.hi % 128) * 2 + (id.lo \div 32768),
    (id.hi \div 128) % 256>>

RECURSIVE RefValue(_), RefConcat(_)
RefConcat(parts) == IF parts = <<>> THEN <<>> ELSE parts[1] \o RefConcat(Tail(parts))

RefValue(v) ==
  CASE v.tag = "Null" -> <<0>>
    [] v.tag = "Boolean" -> <<1, IF v.b THEN 1 ELSE 0>>
    [] v.tag = "Number" -> <<2>> \o RefU32(v.n)
    [] v.tag = "String" -> <<3>> \o RefU32(Len(v.s)) \o v.s
    [] v.tag = "Uint8Array" -> <<4>> \o RefU32(Len(v.bytes)) \o v.bytes
    [] v.tag = "Array" ->
         <<5>> \o RefU32(Len(v.items))
              \o RefConcat([i \in 1..Len(v.items) |-> RefValue(v.items[i])])
    [] v.tag = "Map" ->
         <<6>> \o RefU32(Len(v.entries))
              \o RefConcat([i \in 1..Len(v.entries) |->
                    RefU32(Len(v.entries[i][1])) \o v.entries[i][1]
                      \o RefValue(v.entries[i][2])])

\* a parse: [ok, why, tree, next]; why is "short" (the bytes end early),
\* "tag" (a tag outside 0..6) or "trailing" (bytes follow the value)
WOk(tree, next) == [ok |-> TRUE, why |-> "", tree |-> tree, next |-> next]
WBad(why, tree) == [ok |-> FALSE, why |-> why, tree |-> tree, next |-> <<>>]

\* a count or length cell; -1 when it exceeds any buffer of the model
WireCount(b) == IF b[3] # 0 \/ b[4] # 0 THEN -1 ELSE b[1] + 256 * b[2]

WireI32(b) ==
  b[1] + 256 * b[2] + 65536 * b[3] + 16777216 * (IF b[4] >= 128 THEN b[4] - 256 ELSE b[4])

RECURSIVE WireValue(_), WireArray(_, _, _), WireMap(_, _, _)

\* the tree of the first Value of bytes: Boolean keeps its byte, String its
\* bytes unchecked, Map its entries in wire order
WireValue(bytes) ==
  IF bytes = <<>> THEN WBad("short", Null)
  ELSE LET t == bytes[1]
           r == From(bytes, 1) IN
    CASE t = 0 -> WOk([tag |-> "Null"], r)
      [] t = 1 -> IF r = <<>> THEN WBad("short", Null)
                  ELSE WOk([tag |-> "Boolean", byte |-> r[1]], From(r, 1))
      [] t = 2 -> IF Len(r) < 4 THEN WBad("short", Null)
                  ELSE WOk([tag |-> "Number", n |-> WireI32(r)], From(r, 4))
      [] t \in {3, 4} ->
           IF Len(r) < 4 THEN WBad("short", Null)
           ELSE LET n == WireCount(r) IN
             IF n < 0 \/ n > Len(r) - 4 THEN WBad("short", Null)
             ELSE IF t = 3 THEN WOk([tag |-> "String", s |-> SubSeq(r, 5, 4 + n)], From(r, 4 + n))
             ELSE WOk([tag |-> "Uint8Array", bytes |-> SubSeq(r, 5, 4 + n)], From(r, 4 + n))
      [] t \in {5, 6} ->
           IF Len(r) < 4 THEN WBad("short", Null)
           ELSE LET n == WireCount(r) IN
             IF n < 0 THEN WBad("short", Null)
             ELSE IF t = 5 THEN WireArray(n, From(r, 4), <<>>)
             ELSE WireMap(n, From(r, 4), <<>>)
      [] OTHER -> WBad("tag", Null)

WireArray(n, bytes, items) ==
  IF n = 0 THEN WOk([tag |-> "Array", items |-> items], bytes)
  ELSE LET w == WireValue(bytes) IN
       IF ~w.ok THEN w ELSE WireArray(n - 1, w.next, Append(items, w.tree))

WireMap(n, bytes, entries) ==
  IF n = 0 THEN WOk([tag |-> "Map", entries |-> entries], bytes)
  ELSE IF Len(bytes) < 4 THEN WBad("short", Null)
  ELSE LET k == WireCount(bytes) IN
    IF k < 0 \/ k > Len(bytes) - 4 THEN WBad("short", Null)
    ELSE LET w == WireValue(From(bytes, 4 + k)) IN
      IF ~w.ok THEN w
      ELSE WireMap(n - 1, w.next, Append(entries, <<SubSeq(bytes, 5, 4 + k), w.tree>>))

\* Body := u32_le(idAndDirection) Value, and nothing after it
WireBody(bytes) ==
  IF Len(bytes) < 4 THEN WBad("short", Null)
  ELSE LET w == WireValue(From(bytes, 4)) IN
    IF w.ok /\ w.next # <<>> THEN WBad("trailing", w.tree) ELSE w

\* the keys of S in ascending byte order
RECURSIVE Ascending(_)
Ascending(S) ==
  IF S = {} THEN <<>>
  ELSE LET m == CHOOSE x \in S : \A y \in S \ {x} : StrLess(x, y)
       IN <<m>> \o Ascending(S \ {m})

\* the Value a well-formed tree stands for: a Boolean is true unless its byte
\* is 0; a Map has one entry per distinct key, with the value of the key's
\* last occurrence, keys ascending
RECURSIVE Canon(_)
Canon(t) ==
  CASE t.tag = "Boolean" -> Boolean(t.byte # 0)
    [] t.tag = "Array" -> Array([i \in 1..Len(t.items) |-> Canon(t.items[i])])
    [] t.tag = "Map" ->
         LET e == t.entries
             ks == Ascending({e[i][1] : i \in 1..Len(e)})
             last(k) == CHOOSE i \in 1..Len(e) :
                          e[i][1] = k /\ \A j \in (i + 1)..Len(e) : e[j][1] # k
         IN Map([i \in 1..Len(ks) |-> <<ks[i], Canon(e[last(ks[i])][2])>>])
    [] OTHER -> t

\* every map of the tree, at any depth, has its keys strictly ascending in wire order
RECURSIVE KeysAscending(_)
KeysAscending(t) ==
  CASE t.tag = "Array" -> \A i \in 1..Len(t.items) : KeysAscending(t.items[i])
    [] t.tag = "Map" ->
         /\ \A i \in 1..(Len(t.entries) - 1) : StrLess(t.entries[i][1], t.entries[i + 1][1])
         /\ \A i \in 1..Len(t.entries) : KeysAscending(t.entries[i][2])
    [] OTHER -> TRUE

\* every String and every Map key of the tree, at any depth, is valid UTF-8
RECURSIVE Utf8Clean(_)
Utf8Clean(t) ==
  CASE t.tag = "String" -> from_utf8_ok(t.s)
    [] t.tag = "Array" -> \A i \in 1..Len(t.items) : Utf8Clean(t.items[i])
    [] t.tag = "Map" ->
         \A i \in 1..Len(t.entries) :
           from_utf8_ok(t.entries[i][1]) /\ Utf8Clean(t.entries[i][2])
    [] OTHER -> TRUE

\* every Boolean of the tree carries the byte 0 or 1
RECURSIVE BoolsCanonical(_)
BoolsCanonical(t) ==
  CASE t.tag = "Boolean" -> t.byte \in {0, 1}
    [] t.tag = "Array" -> \A i \in 1..Len(t.items) : BoolsCanonical(t.items[i])
    [] t.tag = "Map" -> \A i \in 1..Len(t.entries) : BoolsCanonical(t.entries[i][2])
    [] OTHER -> TRUE

\* the Value with every map rebuilt by from_iter from its entries taken in
\* another order: rotated by k places, then reversed when rev
RECURSIVE Rebuilt(_, _, _)
Rebuilt(v, k, rev) ==
  CASE v.tag = "Array" -> Array([i \in 1..Len(v.items) |-> Rebuilt(v.items[i], k, rev)])
    [] v.tag = "Map" ->
         LET n == Len(v.entries)
             at(i) == LET j == ((i - 1 + k) % n) + 1 IN IF rev THEN n + 1 - j ELSE j
         IN Map(from_iter([i \in 1..n |->
                  <<v.entries[at(i)][1], Rebuilt(v.entries[at(i)][2], k, rev)>>]))
    [] OTHER -> v

(***************************************************************************)
(* Inputs                                                                  *)
(***************************************************************************)
\* most items of a generated array, most pairs inserted into a generated map
MaxLen == 2

Seqs(S, n) == UNION {[1..k -> S] : k \in 0..n}

\* keys "", "a", "b" and "é"
Keys == {<<>>, <<97>>, <<98>>, <<195, 169>>}

MinI32 == -2147483647 - 1
MaxI32 == 2147483647

Leaves ==
  {Null, Boolean(TRUE), Boolean(FALSE),
   Number(0), Number(1), Number(-1), Number(65536), Number(MinI32), Number(MaxI32),
   String(<<>>), String(<<63>>), String(<<195, 169, 122>>),
   Uint8Array(<<>>), Uint8Array(<<0, 255>>)}

Arrays(E) == {Array(s) : s \in Seqs(E, MaxLen)}
\* maps built by BTreeMap::from_iter from pairs in every insertion order
Maps(E) == {Map(from_iter(s)) : s \in Seqs(Keys \X E, MaxLen)}

Elems1 == {Null, Boolean(TRUE), Number(-1), String(<<97>>)}
Level1 == Arrays(Elems1) \cup Maps(Elems1)

\* the map of the spec's concrete scenario, built "b" first
ScenarioMap == Map(from_iter(<< <<(<<98>>), Boolean(TRUE)>>, <<(<<97>>), Number(0)>> >>))

Elems2 == {Array(<<>>), Map(<<>>), Array(<<Number(-1), Null>>), ScenarioMap}
Level2 == Arrays(Elems2) \cup Maps(Elems2)

Level3 ==
  {Array(<<Map(from_iter(<< <<(<<97>>), Array(<<ScenarioMap, Uint8Array(<<>>)>>)>> >>))>>),
   Map(from_iter(<< <<(<<98>>), Array(<<Array(<<String(<<>>)>>)>>)>>,
                    <<(<<>>), Map(from_iter(<< <<(<<97>>), ScenarioMap>> >>))>> >>))}

Values == Leaves \cup Level1 \cup Level2 \cup Level3

\* ids 0, 1, 65536, 2^31 - 1, 2^31, 2^31 + 1, 2^32 - 1
Ids == {U32(0, 0), U32(0, 1), U32(1, 0), U32(32767, 65535),
        U32(32768, 0), U32(32768, 1), U32(65535, 65535)}

IdValues == {Null, Number(-1), ScenarioMap}

Packets ==
  {Packet(U32(0, 1), TRUE, v) : v \in Values}
    \cup {Packet(id, d, v) : id \in Ids, d \in BOOLEAN, v \in IdValues}

\* bodies a peer may send that encode never produces: maps whose keys repeat
\* or descend (also nested), Booleans with a byte other than 0 and 1
RawElems == {<<0>>, <<1, 2>>, <<2, 255, 255, 255, 255>>,
             <<6, 2, 0, 0, 0,  1, 0, 0, 0, 98, 0,  1, 0, 0, 0, 97, 1, 255>>}

RawMap(pairs) ==
  <<6>> \o RefU32(Len(pairs))
       \o RefConcat([i \in 1..Len(pairs) |->
             RefU32(Len(pairs[i][1])) \o pairs[i][1] \o pairs[i][2]])

RawBodies ==
  {<<2, 0, 0, 0>> \o RawMap(s) : s \in Seqs(Keys \X RawElems, MaxLen)}
    \cup {<<3, 0, 0, 0, 1, b>> : b \in {0, 1, 2, 255}}
    \cup {<<3, 0, 0, 0, 5, 2, 0, 0, 0, 1, 128, 1, 0>>,
          <<0, 0, 0, 0, 5, 0, 0, 1, 0, 0>>,
          <<0, 0, 0, 0, 5, 255, 255, 255, 255, 9>>,
          <<0, 0, 0, 0, 6, 1, 0, 0, 0, 1, 0, 0, 0, 255, 0>>,
          <<0, 0, 0, 0, 3, 2, 0, 0, 0, 192, 128>>}

\* bytes written over a byte of a valid body: an unknown tag, 0xFF, a stray 2
CorruptBytes == {7, 255, 2}

(***************************************************************************)
(* The exchange                                                            *)
(***************************************************************************)
NoOutcome == [kind |-> "none", why |-> "", packet |-> NoPacket]

\* either this side is about to send p, or a buffer from the peer is waiting
Init ==
  /\ frame = <<>>
  /\ out = NoOutcome
  /\ frame2 = <<>>
  /\ \/ pc = "start" /\ p \in Packets /\ src = "none" /\ body = <<>>
     \/ pc = "body" /\ p = NoPacket /\ src = "raw" /\ body \in RawBodies

\* the sender encodes its packet
Encode ==
  /\ pc = "start"
  /\ frame' = encode(p)
  /\ pc' = "encoded"
  /\ UNCHANGED <<p, src, body, out, frame2>>

\* the transport strips the length prefix (read_length_prefixed, as the test does)
Strip ==
  /\ pc = "encoded"
  /\ read_length_prefixed(frame).ok
  /\ body' = read_length_prefixed(frame).value
  /\ src' = "strip"
  /\ pc' = "body"
  /\ UNCHANGED <<p, frame, out, frame2>>

\* the transport hands over a proper non-empty prefix of the body
Truncate ==
  /\ pc = "encoded"
  /\ \E n \in 1..(Len(frame) - 5) :
       body' = SubSeq(frame, 5, 4 + n)
  /\ src' = "prefix"
  /\ pc' = "body"
  /\ UNCHANGED <<p, frame, out, frame2>>

\* one byte of the body is overwritten on the way
Corrupt ==
  /\ pc = "encoded"
  /\ \E i \in 5..Len(frame), b \in CorruptBytes :
       /\ frame[i] # b
       /\ body' = [j \in 1..(Len(frame) - 4) |-> IF j + 4 = i THEN b ELSE frame[j + 4]]
  /\ src' = "corrupt"
  /\ pc' = "body"
  /\ UNCHANGED <<p, frame, out, frame2>>

\* a byte follows the body
Extend ==
  /\ pc = "encoded"
  /\ \E b \in {0, 7} : body' = Append(From(frame, 4), b)
  /\ src' = "extend"
  /\ pc' = "body"
  /\ UNCHANGED <<p, frame, out, frame2>>

\* the receiver decodes the buffer
Decode ==
  /\ pc = "body"
  /\ \E mem \in BOOLEAN : out' = decode(body, mem)
  /\ pc' = "decoded"
  /\ UNCHANGED <<p, frame, src, body, frame2>>

\* the receiver encodes the packet it decoded
Reencode ==
  /\ pc = "decoded"
  /\ out.kind = "packet"
  /\ frame2' = encode(out.packet)
  /\ pc' = "reencoded"
  /\ UNCHANGED <<p, frame, src, body, out>>

Next == Encode \/ Strip \/ Truncate \/ Corrupt \/ Extend \/ Decode \/ Reencode

Spec == Init /\ [][Next]_vars

(***************************************************************************)
(* Properties                                                              *)
(***************************************************************************)
Decoded == pc \in {"decoded", "reencoded"}
Sent == pc # "start" /\ src # "raw"
InRange(id) == id.hi < 32768                       \* id in [0, 2^31 - 1]
Low31(id) == U32(id.hi - 32768, id.lo)             \* id - 2^31

\* C1 (round trip): for a packet with id in [0, 2^31-1], either direction and
\* any Value tree, decode of encode(p) with the 4-byte length prefix stripped
\* returns a Packet equal to p.
C1_RoundTrip ==
  (Decoded /\ src = "strip" /\ InRange(p.id)) => out = Returned(p)

C1_Witness ==
  /\ pc = "decoded" /\ src = "strip" /\ p.value \in Level3
  /\ out = Returned(p)

\* C2 (truncation rejection, as claimed): decode of a proper non-empty prefix
\* of a valid body ends in a decode error returned to the caller: no Packet
\* and no panic.
C2_TruncationIsReturnedError ==
  (Decoded /\ src = "prefix") => out.kind = "error"

\* the part of C2 the code keeps: a proper prefix never decodes to a Packet
C2_PrefixNeverDecodes ==
  (Decoded /\ src = "prefix") => out.kind \in {"panic", "abort"}

C3_TrailingReached ==
  pc = "decoded" /\ src = "extend" /\ WireBody(body).why = "trailing"
    /\ out.why = "invalid_packet"

\* C4 (frame length): the first 4 bytes of encode(p), read as a little-endian
\* u32, equal the number of bytes after them, and those bytes are the 4-byte
\* id/direction cell followed by the encoding of p.value and nothing else.
C4_FrameLength ==
  Sent =>
    /\ Len(frame) >= 9
    /\ frame[1] + 256 * frame[2] + 65536 * frame[3] + 16777216 * frame[4] = Len(frame) - 4
    /\ SubSeq(frame, 5, 8) = RefCell(p.id, p.is_request)
    /\ From(frame, 8) = encode_visit(p.value, <<>>)

C4_Witness ==
  pc = "encoded" /\ p.value \in Level2 /\ Len(frame) > 40 /\ frame[1] = Len(frame) - 4

\* C5 (id/direction packing): for id in [0, 2^31-1] encode writes the cell
\* (id << 1) | (0 if is_request else 1); decode takes is_request from the low
\* bit (0 = request) and id as the cell shifted right by one; unpack(pack(id,
\* dir)) = (id, dir), and pack is injective on that domain.
C5_IdDirectionPacking ==
  /\ (Sent /\ InRange(p.id)) =>
       /\ SubSeq(frame, 5, 8) = RefCell(p.id, p.is_request)
       /\ unpack(pack(p.id, p.is_request)) = [id |-> p.id, is_request |-> p.is_request]
       /\ \A id \in Ids, d \in BOOLEAN :
            (InRange(id) /\ pack(id, d) = pack(p.id, p.is_request))
              => (id = p.id /\ d = p.is_request)
  /\ (Decoded /\ src = "strip" /\ InRange(p.id)) =>
       (out.packet.id = p.id /\ out.packet.is_request = p.is_request)
  /\ (Decoded /\ out.kind = "packet") =>
       /\ out.packet.is_request = (body[1] % 2 = 0)
       /\ out.packet.id = U32((body[3] \div 2) + body[4] * 128,
                              (body[1] \div 2) + body[2] * 128 + (body[3] % 2) * 32768)

C5_Witness ==
  /\ pc = "decoded" /\ src = "strip"
  /\ p.id = U32(32767, 65535) /\ ~p.is_request
  /\ SubSeq(body, 1, 4) = <<255, 255, 255, 255>>
  /\ out.packet.id = p.id /\ ~out.packet.is_request

\* C6 (map key ordering): encode emits the entries of every map, at any
\* depth, in strictly ascending byte order of the keys, and maps with the same
\* entries built in different insertion orders encode to the same bytes.
C6_MapKeyOrdering ==
  pc = "encoded" =>
    LET w == WireBody(From(frame, 4)) IN
    /\ w.ok
    /\ KeysAscending(w.tree)
    /\ \A k \in 0..MaxLen, rev \in BOOLEAN :
         encode(Packet(p.id, p.is_request, Rebuilt(p.value, k, rev))) = frame
    /\ (p = Packet(U32(0, 1), TRUE, ScenarioMap) =>
          From(frame, 4) = <<2, 0, 0, 0, 6, 2, 0, 0, 0,
                             1, 0, 0, 0, 97, 2, 0, 0, 0, 0,
                             1, 0, 0, 0, 98, 1, 1>>)

C6_Witness ==
  /\ pc = "encoded" /\ p.value \in Level3 /\ p.value.tag = "Map"
  /\ Len(p.value.entries) = 2
  /\ KeysAscending(WireBody(From(frame, 4)).tree)

\* C7 (wire format): the bytes encode's visit produces for a Value are the
\* reference grammar's serialisation of it.
C7_WireFormat ==
  Sent =>
    /\ From(frame, 8) = RefValue(p.value)
    /\ encode_visit(p.value, <<>>) = RefValue(p.value)

C7_Witness ==
  /\ pc = "encoded" /\ p.value = Uint8Array(<<>>)
  /\ From(frame, 8) = <<4, 0, 0, 0, 0>>

C7_NestedReached ==
  pc = "encoded" /\ p.value \in Level3 /\ From(frame, 8) = RefValue(p.value)

\* C8 (invalid UTF-8, as claimed): when a String or a Map key of the body is
\* not valid UTF-8, decode yields a decode error surfaced to the caller as a
\* typed failure.
C8_InvalidUtf8IsTypedFailure ==
  (Decoded /\ WireBody(body).ok /\ ~Utf8Clean(WireBody(body).tree)) => out.kind = "error"

\* the part of C8 the code keeps: such a body never decodes to a Packet
C8_InvalidUtf8NeverDecodes ==
  (Decoded /\ WireBody(body).ok /\ ~Utf8Clean(WireBody(body).tree))
    => (out.kind = "panic" /\ out.why = "utf8")

\* C9 (id overflow): for id in [2^31, 2^32-1] encode produces the bytes it
\* produces for id - 2^31 with the same direction and value, decode of them
\* returns id - 2^31, and every id decode returns is in [0, 2^31-1].
C9_IdOverflow ==
  /\ (Sent /\ ~InRange(p.id)) =>
       frame = encode(Packet(Low31(p.id), p.is_request, p.value))
  /\ (Decoded /\ src = "strip" /\ ~InRange(p.id)) =>
       out = Returned(Packet(Low31(p.id), p.is_request, p.value))
  /\ (Decoded /\ out.kind = "packet") => InRange(out.packet.id)

C9_Witness ==
  /\ pc = "decoded" /\ src = "strip" /\ p.id = U32(65535, 65535)
  /\ out.kind = "packet" /\ out.packet.id = U32(32767, 65535)

\* C10 (non-canonical input): decode accepts every well-framed body with
\* valid UTF-8, whatever the order or repetition of its map keys and whatever
\* its Boolean bytes; a Boolean byte other than 0 decodes as true, a repeated
\* key keeps the value of its last occurrence, so a decoded map has at most the
\* declared number of entries; encoding the decoded Packet again yields the
\* canonical bytes (keys ascending, no repeats), which decode to the same
\* Packet.
C10_NonCanonicalNormalised ==
  LET w == WireBody(body) IN
  /\ (Decoded /\ w.ok /\ Utf8Clean(w.tree)) =>
       /\ out.kind = "packet"
       /\ out.packet.value = Canon(w.tree)
       /\ (w.tree.tag = "Map" =>
             Len(out.packet.value.entries) <= Len(w.tree.entries))
  /\ pc = "reencoded" =>
       LET b2 == From(frame2, 4)
           w2 == WireBody(b2) IN
       /\ w2.ok /\ KeysAscending(w2.tree) /\ BoolsCanonical(w2.tree)
       /\ b2 = SubSeq(body, 1, 4) \o RefValue(Canon(w.tree))
       /\ decode(b2, TRUE) = out
       /\ (KeysAscending(w.tree) /\ BoolsCanonical(w.tree) => b2 = body)

C10_Witness ==
  /\ pc = "reencoded" /\ src = "raw"
  /\ ~KeysAscending(WireBody(body).tree)
  /\ ~BoolsCanonical(WireBody(body).tree)
  /\ WireBody(body).tree.tag = "Map"
  /\ Len(out.packet.value.entries) < Len(WireBody(body).tree.entries)
  /\ From(frame2, 4) # body

====
